---- MODULE Spec2Model ----
(***************************************************************************)
(* A model of src/Resources.py: five helper functions around a Prophet     *)
(* model handle and run_forecasting_pipeline, which composes them.         *)
(*                                                                         *)
(* The handle is a mutable Python object.  It is modelled as a record with *)
(* an identity (id); id = 0 is Python's None.  Every call is modelled as   *)
(* an operator returning an outcome: either the call raised (and the       *)
(* exception propagates, since Resources.py has no try/except), or it      *)
(* returned, with the handle as the call left it and the value it gave.    *)
(*                                                                         *)
(* The methods of the imported Prophet class (line 51) are not in src/;    *)
(* they are modelled by their contract: configuration is closed once the   *)
(* handle is fitted, forecasting needs a fitted handle, and any method may *)
(* raise (the `fault` argument names the library method that raises in a   *)
(* call, "none" when none does).                                           *)
(*                                                                         *)
(* Timestamps are day numbers; periods of seasonal components are in       *)
(* hundredths of a day (30.5 days = 3050).                                 *)
(***************************************************************************)
EXTENDS Integers, Sequences, FiniteSets, TLC

\* ------------------------------------------------------------- bounds
MaxDay == 3          \* timestamps of the observation series are 1..MaxDay
MaxPeriods == 2      \* horizons are 0..MaxPeriods
MaxCalls == 4        \* helper calls made one by one on a handle

\* ------------------------------------------------------------- inputs
Freqs == {"D", "W"}

Default ==
    [growth |-> "linear", changepoint_range |-> 80, yearly_seasonality |-> "auto",
     weekly_seasonality |-> "auto", daily_seasonality |-> "False",
     seasonality_mode |-> "additive", n_changepoints |-> 25]

\* Configuration records: the defaults of line 55-57, and records that differ
\* from them in one or more options (changepoint_range is in percent).
Configs ==
    { Default,
      [Default EXCEPT !.growth = "logistic", !.changepoint_range = 90],
      [Default EXCEPT !.growth = "flat", !.n_changepoints = 10],
      [Default EXCEPT !.yearly_seasonality = "True", !.weekly_seasonality = "False"],
      [Default EXCEPT !.weekly_seasonality = "True", !.daily_seasonality = "True"],
      [Default EXCEPT !.daily_seasonality = "auto",
                      !.seasonality_mode = "multiplicative"] }

RECURSIVE Ascending(_)
\* The elements of a finite set of numbers, in increasing order.
Ascending(S) ==
    IF S = {} THEN <<>>
    ELSE LET m == CHOOSE x \in S : \A y \in S : x <= y
         IN  <<m>> \o Ascending(S \ {m})

\* Observation series (their 'ds' column): strictly increasing, as §3 of the
\* data model has them.
Series == { Ascending(S) : S \in SUBSET (1..MaxDay) }

\* Any 'ds' column, also unsorted or with repeated timestamps.
AnySeries == UNION { [1..n -> 1..MaxDay] : n \in 0..2 }

NoHolidays == [given |-> FALSE, rows |-> <<>>]

\* holidays_df: None, an empty table, or tables with rows.
HolidayTables ==
    { NoHolidays,
      [given |-> TRUE, rows |-> <<>>],
      [given |-> TRUE, rows |-> <<[ds |-> 2, holiday |-> "sale"]>>] }

\* ------------------------------------------------------------- values
NoError == [in |-> "none", exc |-> "none"]

NoneModel ==
    [id |-> 0, growth |-> "", changepoint_range |-> 0, yearly_seasonality |-> "",
     weekly_seasonality |-> "", daily_seasonality |-> "", seasonality_mode |-> "",
     n_changepoints |-> 0, country_holidays |-> "None", seasonalities |-> {},
     fitted |-> FALSE, history_dates |-> <<>>]

NoForecast == [id |-> 0, ds |-> <<>>, columns |-> {}]

NoFigure == [id |-> 0, points |-> <<>>]

\* A call that raised: the handle as the call left it, and the exception.
Raise(m, method, exc) ==
    [raised |-> TRUE, error |-> [in |-> method, exc |-> exc], model |-> m,
     forecast |-> NoForecast, fig |-> NoFigure]

\* A call that returned.
Return(m, fc, fg) ==
    [raised |-> FALSE, error |-> NoError, model |-> m, forecast |-> fc, fig |-> fg]

\* ------------------------------------------------------------- the library
\* Prophet(**kw): a new, unfitted handle carrying the keyword arguments.
Prophet(kw, id, fault) ==
    IF fault = "Prophet"
    THEN Raise(NoneModel, "Prophet", "ValueError")
    ELSE Return([id |-> id, growth |-> kw.growth,
                 changepoint_range |-> kw.changepoint_range,
                 yearly_seasonality |-> kw.yearly_seasonality,
                 weekly_seasonality |-> kw.weekly_seasonality,
                 daily_seasonality |-> kw.daily_seasonality,
                 seasonality_mode |-> kw.seasonality_mode,
                 n_changepoints |-> kw.n_changepoints,
                 country_holidays |-> "None", seasonalities |-> {},
                 fitted |-> FALSE, history_dates |-> <<>>],
                NoForecast, NoFigure)

\* Prophet.add_country_holidays: closed once the handle is fitted.
add_country_holidays(m, country_name, fault) ==
    IF m.fitted \/ fault = "add_country_holidays"
    THEN Raise(m, "add_country_holidays", "Exception")
    ELSE Return([m EXCEPT !.country_holidays = country_name], NoForecast, NoFigure)

\* Prophet.add_seasonality: closed once the handle is fitted; a component of
\* the same name is replaced.
add_seasonality(m, name, period, fourier_order, fault) ==
    IF m.fitted \/ fault = "add_seasonality"
    THEN Raise(m, "add_seasonality", "Exception")
    ELSE Return([m EXCEPT !.seasonalities =
                    { s \in @ : s.name # name }
                    \cup {[name |-> name, period |-> period,
                           fourier_order |-> fourier_order]}],
                NoForecast, NoFigure)

\* The set of the elements of a sequence.
Range(s) == { s[i] : i \in 1..Len(s) }

\* Prophet.fit: a handle is fitted once, and not to an empty series.  The
\* handle keeps the distinct timestamps of the series, in increasing order.
\* What the fit estimates is not modelled.
fit(m, df, fault) ==
    IF m.fitted \/ Len(df) = 0 \/ fault = "fit"
    THEN Raise(m, "fit", "Exception")
    ELSE Return([m EXCEPT !.fitted = TRUE, !.history_dates = Ascending(Range(df))],
                NoForecast, NoFigure)

\* The step of a frequency, in days.
Step(freq) == IF freq = "W" THEN 7 ELSE 1

\* The first timestamp of the frequency's grid at or after t: every day is on
\* the daily grid, the weekly grid ("W") holds the multiples of 7.
Snap(t, freq) ==
    IF (t % Step(freq)) = 0 THEN t ELSE t + (Step(freq) - (t % Step(freq)))

\* Prophet.make_future_dataframe(periods, freq): the history's timestamps
\* followed by `periods` grid timestamps after the last of them (a range of
\* periods + 1 timestamps from the last one on, those after it, at most
\* `periods` of them).
make_future_dataframe(m, periods, freq, fault) ==
    IF ~m.fitted \/ fault = "make_future_dataframe"
    THEN Raise(m, "make_future_dataframe", "Exception")
    ELSE LET last_date == m.history_dates[Len(m.history_dates)]
             range == [i \in 1..(periods + 1) |-> Snap(last_date, freq) + (i - 1) * Step(freq)]
             after == SelectSeq(range, LAMBDA t : t > last_date)
             dates == SubSeq(after, 1, IF Len(after) < periods THEN Len(after) ELSE periods)
         IN  Return(m, [id |-> 0, ds |-> m.history_dates \o dates, columns |-> {}],
                    NoFigure)

\* The columns of a forecast: the timestamp, the trend and the prediction with
\* its bounds, and one column group per component registered on the handle.
Columns(m) ==
    {"ds", "trend", "yhat", "yhat_lower", "yhat_upper"}
    \cup { s.name : s \in m.seasonalities }
    \cup (IF m.country_holidays = "None" THEN {} ELSE {"holidays"})

\* Prophet.predict(future): one row per timestamp of `future`.
predict(m, future, id, fault) ==
    IF ~m.fitted \/ Len(future.ds) = 0 \/ fault = "predict"
    THEN Raise(m, "predict", "Exception")
    ELSE Return(m, [id |-> id, ds |-> future.ds, columns |-> Columns(m)], NoFigure)

\* Prophet.plot(forecast): a figure of the forecast's rows; the forecast and
\* the handle are read only.  There is no figure of None.
plot(m, fcst, fault) ==
    IF ~m.fitted \/ fcst.id = 0 \/ fault = "plot"
    THEN Raise(m, "plot", "Exception")
    ELSE Return(m, fcst, [id |-> fcst.id, points |-> fcst.ds])

\* A method called on None: Python raises AttributeError before any library
\* code runs.
OnNone(m) == Raise(m, "getattr", "AttributeError")

\* ------------------------------------------------------------- faulty variants
\* Variants of the helpers below, each with one plausible slip; the properties
\* at the end of the module are checked to tell the helpers from them.

\* yearly_seasonality and weekly_seasonality change places.
create_prophet_model_Swapped(growth, changepoint_range, yearly_seasonality, weekly_seasonality, daily_seasonality, seasonality_mode, n_changepoints, id, fault) ==
    Prophet([growth |-> growth, changepoint_range |-> changepoint_range,
             yearly_seasonality |-> weekly_seasonality,
             weekly_seasonality |-> yearly_seasonality,
             daily_seasonality |-> daily_seasonality,
             seasonality_mode |-> seasonality_mode,
             n_changepoints |-> n_changepoints], id, fault)

\* Nothing is registered for a table without rows.
add_holidays_to_model_FromRows(model, holidays_df, fault) ==
    IF model.id = 0 THEN OnNone(model)
    ELSE IF Len(holidays_df.rows) = 0 THEN Return(model, NoForecast, NoFigure)
    ELSE LET r1 == add_country_holidays(model, "US", fault)
         IN  IF r1.raised THEN r1
             ELSE add_seasonality(r1.model, "monthly", 3050, 5, fault)

\* The country holidays are forgotten.
add_holidays_to_model_SeasonalityOnly(model, holidays_df, fault) ==
    IF model.id = 0 THEN OnNone(model)
    ELSE add_seasonality(model, "monthly", 3050, 5, fault)

\* The prediction covers the new timestamps only.
make_future_predictions_FutureOnly(model, periods, freq, id, fault) ==
    IF model.id = 0 THEN OnNone(model)
    ELSE LET r1 == make_future_dataframe(model, periods, freq, fault)
             n  == Len(model.history_dates)
         IN  IF r1.raised THEN r1
             ELSE predict(r1.model,
                          [r1.forecast EXCEPT !.ds = SubSeq(@, n + 1, Len(@))],
                          id, fault)

\* The extended timestamps are kept on the handle as its history.
make_future_predictions_KeepsFuture(model, periods, freq, id, fault) ==
    IF model.id = 0 THEN OnNone(model)
    ELSE LET r1 == make_future_dataframe(model, periods, freq, fault)
         IN  IF r1.raised THEN r1
             ELSE predict([r1.model EXCEPT !.history_dates = r1.forecast.ds],
                          r1.forecast, id, fault)

\* An exception of the library is caught and an empty forecast returned.
make_future_predictions_Lenient(model, periods, freq, id, fault) ==
    IF model.id = 0 THEN OnNone(model)
    ELSE LET r1 == make_future_dataframe(model, periods, freq, fault)
             r2 == IF r1.raised THEN r1 ELSE predict(r1.model, r1.forecast, id, fault)
         IN  IF r2.raised
             THEN Return(r2.model, [id |-> id, ds |-> <<>>, columns |-> {}], NoFigure)
             ELSE r2

\* ------------------------------------------------------------- the helpers
\* create_prophet_model (line 55-81): the seven options go to Prophet by
\* keyword; `id` is the identity of the object Prophet creates.
create_prophet_model(growth, changepoint_range, yearly_seasonality, weekly_seasonality, daily_seasonality, seasonality_mode, n_changepoints, id, fault) ==
    Prophet([growth |-> growth, changepoint_range |-> changepoint_range,
             yearly_seasonality |-> yearly_seasonality,
             weekly_seasonality |-> weekly_seasonality,
             daily_seasonality |-> daily_seasonality,
             seasonality_mode |-> seasonality_mode,
             n_changepoints |-> n_changepoints], id, fault)

\* add_holidays_to_model (line 84-98): holidays_df is not read; the US
\* holidays and the 'monthly' component (30.5 days, order 5) are registered
\* on the handle, which is returned.
add_holidays_to_model(model, holidays_df, fault) ==
    IF model.id = 0 THEN OnNone(model)
    ELSE LET r1 == add_country_holidays(model, "US", fault)
         IN  IF r1.raised THEN r1
             ELSE add_seasonality(r1.model, "monthly", 3050, 5, fault)

\* fit_prophet_model (line 101-113): model.fit(df); the handle is returned.
fit_prophet_model(model, df, fault) ==
    IF model.id = 0 THEN OnNone(model) ELSE fit(model, df, fault)

\* make_future_predictions (line 116-130): the extended timestamps, then the
\* prediction over them; `id` is the identity of the forecast table.
make_future_predictions(model, periods, freq, id, fault) ==
    IF model.id = 0 THEN OnNone(model)
    ELSE LET r1 == make_future_dataframe(model, periods, freq, fault)
         IN  IF r1.raised THEN r1
             ELSE predict(r1.model, r1.forecast, id, fault)

\* plot_forecast (line 133-145): the figure of model.plot(forecast).
plot_forecast(model, fcst, fault) ==
    IF model.id = 0 THEN OnNone(model) ELSE plot(model, fcst, fault)

\* ------------------------------------------------------------- state
VARIABLES
    data,        \* run_forecasting_pipeline's data: the series' timestamps
    config,      \* its seven configuration options
    periods,     \* its periods
    freq,        \* its freq
    holidays,    \* its holidays_df, in the first and in the second invocation
    run,         \* the invocation under way: 1 or 2, one after the other
    pc,          \* where the invocation stands: step1..step5, returned, raised
    model,       \* the local `model`: the handle (NoneModel before step 1)
    forecast,    \* the local `forecast`
    predicted,   \* the forecast as make_future_predictions returned it
    figure,      \* what plot_forecast rendered
    result,      \* the value the caller received
    error,       \* the exception the caller received
    trace,       \* the stages entered, each with the handle it was given
    finished,    \* the first invocation's outcome, once it has ended
    nextId,      \* identities of the objects created so far
    calls,       \* helper calls made so far (helper-call specification)
    last,        \* the most recent helper call
    prev         \* the helper call before it

vars == <<data, config, periods, freq, holidays, run, pc, model, forecast,
          predicted, figure, result, error, trace, finished, nextId, calls,
          last, prev>>

inputs == <<data, config, periods, freq, holidays>>

callVars == <<calls, last, prev>>

NoCall ==
    [op |-> "none", before |-> NoneModel, holidays_df |-> NoHolidays,
     periods |-> 0, freq |-> "D", raised |-> FALSE, error |-> NoError,
     returned |-> 0, ds |-> <<>>]

NoPrev ==
    [op |-> "none", handle |-> 0, periods |-> 0, freq |-> "D", raised |-> FALSE,
     ds |-> <<>>]

NotFinished ==
    [done |-> FALSE, holidays_df |-> NoHolidays, model |-> NoneModel,
     result |-> NoForecast, error |-> NoError, trace |-> <<>>]

\* holidays_df of the invocation under way.
holidays_df == holidays[run]

\* One entry of the trace: the stage, the handle it worked on (as it was when
\* the stage was entered; for step 1, the handle it created) and the exception
\* the stage raised (NoError: none).
Entered(stage, m, out) ==
    [stage |-> stage, handle |-> m.id, fitted |-> m.fitted, error |-> out.error]

Init ==
    /\ data \in Series \cup AnySeries
    /\ config \in Configs
    /\ periods \in 0..MaxPeriods
    /\ freq \in Freqs
    /\ holidays \in [1..2 -> HolidayTables]
    /\ run = 1
    /\ pc = "step1"
    /\ model = NoneModel
    /\ forecast = NoForecast
    /\ predicted = NoForecast
    /\ figure = NoFigure
    /\ result = NoForecast
    /\ error = NoError
    /\ trace = <<>>
    /\ finished = NotFinished
    /\ nextId = 0
    /\ calls = 0
    /\ last = NoCall
    /\ prev = NoPrev

\* ------------------------------------------------------------- the pipeline
\* An exception leaves run_forecasting_pipeline (line 170-188 has no
\* try/except): the caller receives it, and no value.
Propagate(out) ==
    /\ pc' = "raised"
    /\ error' = out.error
    /\ UNCHANGED result

\* Step 1 (line 171-173): the options are passed on by position.
Step1 ==
    /\ pc = "step1"
    /\ \E fault \in {"none", "Prophet"} :
         LET out == create_prophet_model(config.growth, config.changepoint_range,
                        config.yearly_seasonality, config.weekly_seasonality,
                        config.daily_seasonality, config.seasonality_mode,
                        config.n_changepoints, nextId + 1, fault)
         IN  /\ trace' = Append(trace, Entered("create_prophet_model", out.model, out))
             /\ nextId' = nextId + 1
             /\ IF out.raised
                THEN Propagate(out) /\ UNCHANGED model
                ELSE /\ model' = out.model
                     /\ pc' = "step2"
                     /\ UNCHANGED <<error, result>>
    /\ UNCHANGED <<inputs, run, forecast, predicted, figure, finished, callVars>>

\* Faulty variant of step 2: the model is fitted before the holidays are added.
Step2_FitFirst ==
    /\ pc = "step2"
    /\ IF holidays_df.given
       THEN \E fault \in {"none", "add_country_holidays", "add_seasonality"} :
              LET fitted == fit_prophet_model(model, data, "none")
                  out    == add_holidays_to_model(fitted.model, holidays_df, fault)
              IN  /\ trace' = trace \o
                        << Entered("fit_prophet_model", model, fitted),
                           Entered("add_holidays_to_model", fitted.model, out) >>
                  /\ model' = out.model
                  /\ IF out.raised
                     THEN Propagate(out)
                     ELSE pc' = "step4" /\ UNCHANGED <<error, result>>
       ELSE /\ pc' = "step3"
            /\ UNCHANGED <<model, trace, error, result>>
    /\ UNCHANGED <<inputs, run, forecast, predicted, figure, finished, nextId, callVars>>

\* Faulty variant of step 2: the holidays are added whether or not a table is
\* given.
Step2_Always ==
    /\ pc = "step2"
    /\ \E fault \in {"none", "add_country_holidays", "add_seasonality"} :
         LET out == add_holidays_to_model(model, holidays_df, fault)
         IN  /\ trace' = Append(trace, Entered("add_holidays_to_model", model, out))
             /\ model' = out.model
             /\ IF out.raised
                THEN Propagate(out)
                ELSE pc' = "step3" /\ UNCHANGED <<error, result>>
    /\ UNCHANGED <<inputs, run, forecast, predicted, figure, finished, nextId, callVars>>

\* Step 2 (line 176-177): only when a holiday table is given.
Step2 ==
    /\ pc = "step2"
    /\ IF holidays_df.given
       THEN \E fault \in {"none", "add_country_holidays", "add_seasonality"} :
              LET out == add_holidays_to_model(model, holidays_df, fault)
              IN  /\ trace' = Append(trace, Entered("add_holidays_to_model", model, out))
                  /\ model' = out.model
                  /\ IF out.raised
                     THEN Propagate(out)
                     ELSE pc' = "step3" /\ UNCHANGED <<error, result>>
       ELSE /\ pc' = "step3"
            /\ UNCHANGED <<model, trace, error, result>>
    /\ UNCHANGED <<inputs, run, forecast, predicted, figure, finished, nextId, callVars>>

\* Step 3 (line 180).
Step3 ==
    /\ pc = "step3"
    /\ \E fault \in {"none", "fit"} :
         LET out == fit_prophet_model(model, data, fault)
         IN  /\ trace' = Append(trace, Entered("fit_prophet_model", model, out))
             /\ model' = out.model
             /\ IF out.raised
                THEN Propagate(out)
                ELSE pc' = "step4" /\ UNCHANGED <<error, result>>
    /\ UNCHANGED <<inputs, run, forecast, predicted, figure, finished, nextId, callVars>>

\* Step 4 (line 183).
Step4 ==
    /\ pc = "step4"
    /\ \E fault \in {"none", "make_future_dataframe", "predict"} :
         LET out == make_future_predictions(model, periods, freq, nextId + 1, fault)
         IN  /\ trace' = Append(trace, Entered("make_future_predictions", model, out))
             /\ model' = out.model
             /\ nextId' = nextId + 1
             /\ IF out.raised
                THEN Propagate(out) /\ UNCHANGED <<forecast, predicted>>
                ELSE /\ forecast' = out.forecast
                     /\ predicted' = out.forecast
                     /\ pc' = "step5"
                     /\ UNCHANGED <<error, result>>
    /\ UNCHANGED <<inputs, run, figure, finished, callVars>>

\* Faulty variant of step 5: an exception of the plot is caught and the
\* forecast returned all the same.
Step5_Swallow ==
    /\ pc = "step5"
    /\ \E fault \in {"none", "plot"} :
         LET out == plot_forecast(model, forecast, fault)
         IN  /\ trace' = Append(trace, Entered("plot_forecast", model, out))
             /\ model' = out.model
             /\ figure' = out.fig
             /\ result' = forecast
             /\ pc' = "returned"
             /\ UNCHANGED <<forecast, error>>
    /\ UNCHANGED <<inputs, run, predicted, finished, nextId, callVars>>

\* Faulty variant of step 5: what plot_forecast returns is returned.
Step5_ReturnsFigure ==
    /\ pc = "step5"
    /\ \E fault \in {"none", "plot"} :
         LET out == plot_forecast(model, forecast, fault)
         IN  /\ trace' = Append(trace, Entered("plot_forecast", model, out))
             /\ model' = out.model
             /\ IF out.raised
                THEN Propagate(out) /\ UNCHANGED <<forecast, figure>>
                ELSE /\ forecast' = out.forecast
                     /\ figure' = out.fig
                     /\ result' = [id |-> out.fig.id, ds |-> out.fig.points,
                                   columns |-> {"figure"}]
                     /\ pc' = "returned"
                     /\ UNCHANGED error
    /\ UNCHANGED <<inputs, run, predicted, finished, nextId, callVars>>

\* Step 5 and the return (line 186-188): the figure plot_forecast returns is
\* dropped; the local `forecast` is returned.
Step5 ==
    /\ pc = "step5"
    /\ \E fault \in {"none", "plot"} :
         LET out == plot_forecast(model, forecast, fault)
         IN  /\ trace' = Append(trace, Entered("plot_forecast", model, out))
             /\ model' = out.model
             /\ IF out.raised
                THEN Propagate(out) /\ UNCHANGED <<forecast, figure>>
                ELSE /\ forecast' = out.forecast
                     /\ figure' = out.fig
                     /\ result' = out.forecast
                     /\ pc' = "returned"
                     /\ UNCHANGED error
    /\ UNCHANGED <<inputs, run, predicted, finished, nextId, callVars>>

\* The caller invokes the pipeline a second time, on the same series, options
\* and horizon; every local of the first invocation is gone.
SecondRun ==
    /\ pc \in {"returned", "raised"}
    /\ run = 1
    /\ finished' = [done |-> TRUE, holidays_df |-> holidays_df, model |-> model,
                    result |-> result, error |-> error, trace |-> trace]
    /\ run' = 2
    /\ pc' = "step1"
    /\ model' = NoneModel
    /\ forecast' = NoForecast
    /\ predicted' = NoForecast
    /\ figure' = NoFigure
    /\ result' = NoForecast
    /\ error' = NoError
    /\ trace' = <<>>
    /\ UNCHANGED <<inputs, nextId, callVars>>

Next == Step1 \/ Step2 \/ Step3 \/ Step4 \/ Step5 \/ SecondRun

Spec == Init /\ [][Next]_vars

\* ------------------------------------------------------------- helper calls
\* A caller that holds `model` and `forecast` and calls the helpers one by
\* one, in any order, each with `model` as its handle argument.

\* The record of a call: the handle as it was before the call, the arguments,
\* whether the call raised, the identity of the handle it returned (0: none)
\* and the timestamps of the forecast it returned.
Called(op, hdf, p, f, out, returned) ==
    [op |-> op, before |-> model, holidays_df |-> hdf, periods |-> p,
     freq |-> f, raised |-> out.raised, error |-> out.error,
     returned |-> IF out.raised THEN 0 ELSE returned, ds |-> out.forecast.ds]

InitCalls ==
    /\ data = <<>>
    /\ config = Default
    /\ periods = 0
    /\ freq = "D"
    /\ holidays = [i \in 1..2 |-> NoHolidays]
    /\ run = 1
    /\ pc = "calls"
    /\ model = NoneModel
    /\ forecast = NoForecast
    /\ predicted = NoForecast
    /\ figure = NoFigure
    /\ result = NoForecast
    /\ error = NoError
    /\ trace = <<>>
    /\ finished = NotFinished
    /\ nextId = 0
    /\ calls = 0
    /\ last = NoCall
    /\ prev = NoPrev

\* What is kept of the call before the last one.
Brief(call) ==
    [op |-> call.op, handle |-> call.before.id, periods |-> call.periods,
     freq |-> call.freq, raised |-> call.raised, ds |-> call.ds]

\* What every helper call does to the caller's state, besides its own result.
AfterCall(call) ==
    /\ calls' = calls + 1
    /\ prev' = Brief(last)
    /\ last' = call
    /\ error' = call.error
    /\ UNCHANGED <<inputs, run, pc, predicted, result, trace, finished>>

\* model = create_prophet_model(...)
CallCreate ==
    /\ pc = "calls" /\ calls < MaxCalls
    /\ \E cfg \in Configs, fault \in {"none", "Prophet"} :
         LET out == create_prophet_model(cfg.growth, cfg.changepoint_range,
                        cfg.yearly_seasonality, cfg.weekly_seasonality,
                        cfg.daily_seasonality, cfg.seasonality_mode,
                        cfg.n_changepoints, nextId + 1, fault)
         IN  /\ model' = IF out.raised THEN model ELSE out.model
             /\ nextId' = nextId + 1
             /\ AfterCall(Called("create_prophet_model", NoHolidays, 0, "D",
                                 out, out.model.id))
    /\ UNCHANGED <<forecast, figure>>

\* model = add_holidays_to_model(model, holidays_df)
CallAddHolidays ==
    /\ pc = "calls" /\ calls < MaxCalls
    /\ \E hdf \in HolidayTables \ {NoHolidays},
          fault \in {"none", "add_country_holidays", "add_seasonality"} :
         LET out == add_holidays_to_model(model, hdf, fault)
         IN  /\ model' = out.model
             /\ AfterCall(Called("add_holidays_to_model", hdf, 0, "D",
                                 out, out.model.id))
    /\ UNCHANGED <<forecast, figure, nextId>>

\* model = fit_prophet_model(model, df)
CallFit ==
    /\ pc = "calls" /\ calls < MaxCalls
    /\ \E df \in Series, fault \in {"none", "fit"} :
         LET out == fit_prophet_model(model, df, fault)
         IN  /\ model' = out.model
             /\ AfterCall(Called("fit_prophet_model", NoHolidays, 0, "D",
                                 out, out.model.id))
    /\ UNCHANGED <<forecast, figure, nextId>>

\* forecast = make_future_predictions(model, periods, freq)
CallPredict ==
    /\ pc = "calls" /\ calls < MaxCalls
    /\ \E p \in 0..MaxPeriods, f \in Freqs,
          fault \in {"none", "make_future_dataframe", "predict"} :
         LET out == make_future_predictions(model, p, f, nextId + 1, fault)
         IN  /\ model' = out.model
             /\ forecast' = IF out.raised THEN forecast ELSE out.forecast
             /\ nextId' = nextId + 1
             /\ AfterCall(Called("make_future_predictions", NoHolidays, p, f,
                                 out, 0))
    /\ UNCHANGED figure

\* fig = plot_forecast(model, forecast)
CallPlot ==
    /\ pc = "calls" /\ calls < MaxCalls
    /\ \E fault \in {"none", "plot"} :
         LET out == plot_forecast(model, forecast, fault)
         IN  /\ model' = out.model
             /\ forecast' = IF out.raised THEN forecast ELSE out.forecast
             /\ figure' = IF out.raised THEN figure ELSE out.fig
             /\ AfterCall(Called("plot_forecast", NoHolidays, 0, "D", out, 0))
    /\ UNCHANGED nextId

NextCalls == CallCreate \/ CallAddHolidays \/ CallFit \/ CallPredict \/ CallPlot

SpecCalls == InitCalls /\ [][NextCalls]_vars

\* ------------------------------------------------------------- properties
Stages ==
    << "create_prophet_model", "add_holidays_to_model", "fit_prophet_model",
       "make_future_predictions", "plot_forecast" >>

\* The stages an invocation goes through, given its holidays_df.
Expected(hdf) ==
    IF hdf.given THEN Stages ELSE SelectSeq(Stages, LAMBDA st : st # "add_holidays_to_model")

\* The library methods a stage calls.
MethodsOf(stage) ==
    CASE stage = "create_prophet_model"    -> {"Prophet"}
      [] stage = "add_holidays_to_model"   -> {"add_country_holidays", "add_seasonality"}
      [] stage = "fit_prophet_model"       -> {"fit"}
      [] stage = "make_future_predictions" -> {"make_future_dataframe", "predict"}
      [] stage = "plot_forecast"           -> {"plot"}

\* tr is a run of the stages in their order, each at most once, augmentation
\* exactly when a table is given, all on one handle, augmentation on a handle
\* that is not fitted.
InOrder(tr, hdf) ==
    /\ Len(tr) <= Len(Expected(hdf))
    /\ \A i \in 1..Len(tr) : tr[i].stage = Expected(hdf)[i]
    /\ \A i \in 2..Len(tr) : tr[i].handle # 0 /\ tr[i].handle = tr[1].handle
    /\ \A i \in 1..Len(tr) : tr[i].stage = "add_holidays_to_model" => ~tr[i].fitted

\* C1: in every invocation of run_forecasting_pipeline the stages entered so
\* far are an initial part of configure, augment (exactly when a holiday table
\* is given), fit, forecast, present, each at most once and all with the same
\* handle; augmentation is never entered with a fitted handle; an invocation
\* that returned went through all of them.
C1_StagesInOrder ==
    /\ InOrder(trace, holidays_df)
    /\ pc = "returned" => Len(trace) = Len(Expected(holidays_df))
    /\ finished.done =>
         /\ InOrder(finished.trace, finished.holidays_df)
         /\ finished.result.id # 0 =>
              Len(finished.trace) = Len(Expected(finished.holidays_df))

C1_Witness ==
    /\ pc = "returned"
    /\ holidays_df.given
    /\ Len(trace) = 5
    /\ finished.done /\ ~finished.holidays_df.given /\ Len(finished.trace) = 4

\* The stage that raised, if any, is the last one entered; the caller has the
\* exception as the library raised it, and no value.
Aborted(tr, at, res, err) ==
    /\ \A i \in 1..Len(tr) :
         tr[i].error # NoError =>
           /\ i = Len(tr)
           /\ at = "raised"
           /\ err = tr[i].error
           /\ err.in \in MethodsOf(tr[i].stage)
    /\ \A i, j \in 1..Len(tr) : i # j => tr[i].stage # tr[j].stage
    /\ at = "raised" => res = NoForecast /\ err # NoError /\ tr[Len(tr)].error = err
    /\ at = "returned" => err = NoError

\* C3: when a stage of run_forecasting_pipeline raises, no later stage is
\* entered, no stage is entered twice, the caller receives the exception of the
\* library unchanged and no forecast.
C3_AbortsAtFailure ==
    /\ Aborted(trace, pc, result, error)
    /\ finished.done =>
         Aborted(finished.trace, IF finished.error = NoError THEN "returned" ELSE "raised",
                 finished.result, finished.error)

C3_Witness ==
    /\ pc = "raised"
    /\ error.in = "predict"
    /\ Len(trace) = 4
    /\ finished.done /\ finished.error.in = "plot" /\ finished.result = NoForecast

StrictlyIncreasing(sq) == \A i \in 1..(Len(sq) - 1) : sq[i] < sq[i + 1]

\* C4: for a series of n strictly increasing timestamps and a horizon of p
\* steps, the forecast run_forecasting_pipeline returns (the one
\* make_future_predictions made) has n + p rows, the first n timestamps are the
\* series' in order, and the other p are after the last of the series.
C4_ForecastRows ==
    (pc = "returned" /\ StrictlyIncreasing(data)) =>
        LET n == Len(data)
        IN  /\ Len(result.ds) = n + periods
            /\ SubSeq(result.ds, 1, n) = data
            /\ \A i \in (n + 1)..Len(result.ds) : result.ds[i] > data[n]

C4_Witness ==
    /\ pc = "returned"
    /\ Len(data) = MaxDay
    /\ periods = MaxPeriods
    /\ freq = "W"
    /\ Len(result.ds) = MaxDay + MaxPeriods

\* C6: when holidays_df is None, the handle is fitted with the registrations
\* create_prophet_model gave it, and the fitted handle and the forecast are
\* those of create, fit, forecast composed without an augmentation stage.
C6_NoTableNoAugmentation ==
    ~holidays_df.given =>
        /\ \A i \in 1..Len(trace) : trace[i].stage # "add_holidays_to_model"
        /\ model.country_holidays = "None" /\ model.seasonalities = {}
        /\ pc = "returned" =>
             LET m0 == create_prophet_model(config.growth, config.changepoint_range,
                           config.yearly_seasonality, config.weekly_seasonality,
                           config.daily_seasonality, config.seasonality_mode,
                           config.n_changepoints, model.id, "none").model
                 m1 == fit_prophet_model(m0, data, "none").model
             IN  /\ model = m1
                 /\ result = make_future_predictions(m1, periods, freq, result.id,
                                                     "none").forecast

C6_Witness ==
    /\ ~holidays_df.given
    /\ pc = "returned"
    /\ model.fitted
    /\ Len(result.ds) > Len(data)

\* Both invocations returned, one with a holiday table and one without.
WithAndWithout ==
    /\ finished.done /\ finished.result.id # 0
    /\ pc = "returned"
    /\ finished.holidays_df.given # holidays_df.given

Options ==
    { "growth", "changepoint_range", "yearly_seasonality", "weekly_seasonality",
      "daily_seasonality", "seasonality_mode", "n_changepoints" }

\* C8: the handle create_prophet_model returns to run_forecasting_pipeline
\* carries, for each of the seven options, the value the pipeline was given.
C8_OptionsCarried ==
    pc = "step2" =>
        /\ model.id # 0
        /\ \A o \in Options : model[o] = config[o]

C8_Witness ==
    /\ pc = "step2"
    /\ model.id # 0
    /\ model.yearly_seasonality = "True"
    /\ model.weekly_seasonality = "False"

\* C9: the value run_forecasting_pipeline returns is the forecast
\* make_future_predictions returned, the same object with the same contents;
\* the figure is not what the caller receives.
C9_ReturnsForecast ==
    pc = "returned" =>
        /\ result.id # 0
        /\ result = predicted
        /\ figure.id = result.id

C9_Witness ==
    /\ pc = "returned"
    /\ figure # NoFigure
    /\ Len(result.ds) >= 2
    /\ "yhat" \in result.columns

\* A helper call out of the handle's order: on no handle at all, forecasting or
\* plotting on a handle that is not fitted, augmenting or fitting a fitted one.
OutOfOrder(call) ==
    \/ /\ call.op \in {"add_holidays_to_model", "fit_prophet_model",
                       "make_future_predictions", "plot_forecast"}
       /\ call.before.id = 0
    \/ /\ call.op \in {"make_future_predictions", "plot_forecast"}
       /\ ~call.before.fitted
    \/ /\ call.op \in {"add_holidays_to_model", "fit_prophet_model"}
       /\ call.before.fitted

\* C2: whatever helper calls came before, a helper call out of order raises: the
\* fitter called before the configurator made a handle raises, and
\* make_future_predictions on a handle that is not fitted raises and gives no
\* forecast; the handle and the caller's forecast are as they were.
C2_OutOfOrderRejected ==
    OutOfOrder(last) =>
        /\ last.raised
        /\ last.error # NoError /\ error = last.error
        /\ last.ds = <<>>
        /\ model = last.before

C2_Witness ==
    /\ last.op = "make_future_predictions"
    /\ last.before.id # 0
    /\ ~last.before.fitted
    /\ last.before.country_holidays = "US"
    /\ last.raised
    /\ last.error.in = "make_future_dataframe"
    /\ prev.op = "add_holidays_to_model" /\ ~prev.raised
    /\ forecast = NoForecast

\* C5: two consecutive calls of make_future_predictions on the same fitted
\* handle with the same periods and freq, both returning, return the same
\* timestamps; the first call left the handle as it was.
C5_SameTimestamps ==
    ( /\ prev.op = "make_future_predictions" /\ ~prev.raised
      /\ last.op = "make_future_predictions" /\ ~last.raised
      /\ last.before.id = prev.handle
      /\ last.periods = prev.periods /\ last.freq = prev.freq )
    => /\ last.ds = prev.ds
       /\ model = last.before

C5_Witness ==
    /\ prev.op = "make_future_predictions" /\ ~prev.raised
    /\ last.op = "make_future_predictions" /\ ~last.raised
    /\ last.before.id = prev.handle
    /\ last.periods = MaxPeriods /\ prev.periods = MaxPeriods
    /\ last.freq = "W" /\ prev.freq = "W"
    /\ Len(last.ds) = 2 + MaxPeriods

====
